---- MODULE Spec2Model ----
(***************************************************************************)
(* Model of the snow-day engine of kreeshap/snowday, src/mainapp.py:       *)
(* class ImprovedSnowDayCalculator.                                        *)
(*                                                                         *)
(* Numbers.  The code computes in floats; the model computes the same      *)
(* quantities exactly, in integers:                                        *)
(*   - liquid precipitation (QPF): the NWS value in tenths of a millimetre;*)
(*     after /25.4 it is held in 1/2540 inch;                              *)
(*   - snow depth: 1/25400 inch (Inch units per inch), so that QPF times a *)
(*     ratio given in tenths is exact;                                     *)
(*   - scores: tenths of a point (the timing weights have one decimal);    *)
(*   - temperatures returned by _get_temperature_fahrenheit: tenths of a   *)
(*     degree F; wind chill: millionths of a degree F;                     *)
(*   - confidence: 1/10000.                                                *)
(* Text.  A forecast text is the set of the keywords it contains; a time   *)
(* stamp is <<"at", date, hour>> (date: the proleptic ordinal of           *)
(* datetime.date, hour 0..23) or <<"bad">> (a string fromisoformat         *)
(* rejects).  All time stamps carry the same UTC offset.                   *)
(***************************************************************************)
EXTENDS Integers, Sequences, FiniteSets, TLC

(***************************************************************************)
(* Python values                                                           *)
(***************************************************************************)
\* Optional[...]: None, or a value
None == <<>>
Some(v) == <<v>>

\* A dictionary entry: key absent, key present with null, key with a number
Absent == <<"absent">>
Null == <<"null">>
Num(v) == <<"num", v>>
IsNum(f) == Len(f) = 2

\* `not x` for an Optional list: None or empty
IsEmpty(x) == IF x = None THEN TRUE ELSE x[1] = <<>>

Min(S) == CHOOSE x \in S : \A y \in S : x <= y
Max(S) == CHOOSE x \in S : \A y \in S : x >= y

\* round(n / d) to the nearest integer, ties to even, as Python's round()
RoundDiv(n, d) ==
    LET q == n \div d
        r == n % d
    IN  IF 2 * r < d THEN q
        ELSE IF 2 * r > d THEN q + 1
        ELSE IF q % 2 = 0 THEN q ELSE q + 1

(***************************************************************************)
(* Units                                                                   *)
(***************************************************************************)
\* qpf_amount = precip_val / 25.4 (mm to inches): tenths of a mm per inch
MmPerInch10 == 254
\* snow-depth units per inch
Inch == MmPerInch10 * 100
\* score units per point
Pt == 10 * 1
\* wind-chill units per degree F
Deg == 1000 * 1000

(***************************************************************************)
(* DISTRICT_PROFILES and __init__                                          *)
(***************************************************************************)
ProfileNames == {"conservative", "average", "tough", "northville"}

\* accumulation_threshold in snow-depth units, timing_weight in tenths
DISTRICT_PROFILES ==
    [n \in ProfileNames |->
        CASE n = "conservative" -> [accumulation_threshold |-> 3 * Inch,
                                    timing_weight |-> 25]
          [] n = "average"      -> [accumulation_threshold |-> (45 * Inch) \div 10,
                                    timing_weight |-> 22]
          [] n = "tough"        -> [accumulation_threshold |-> 6 * Inch,
                                    timing_weight |-> 18]
          [] n = "northville"   -> [accumulation_threshold |-> (35 * Inch) \div 10,
                                    timing_weight |-> 23]]

\* self.profile: an unknown profile name falls back to 'average'
ProfileOf(district_profile) ==
    IF district_profile \in ProfileNames
    THEN DISTRICT_PROFILES[district_profile]
    ELSE DISTRICT_PROFILES["average"]

(***************************************************************************)
(* Utility functions                                                       *)
(***************************************************************************)
\* datetime.fromisoformat accepts the string
iso_ok(s) == s[1] = "at"

\* datetime.fromisoformat(s), for a string it accepts
fromisoformat(s) == [date |-> s[2], hour |-> s[3], abs |-> s[2] * 24 + s[3]]

\* dt.hour of a period's start
hour_of(period) == fromisoformat(period.startTime).hour

\* _extract_number: the first number of a formatted string, None when the
\* field is absent, empty or holds no digit
extract_number(s) == IF IsNum(s) THEN Some(s[2]) ELSE None

\* _extract_precipitation_data: QPF in 1/2540 inch (the probability of
\* precipitation, which no score reads, is left out)
extract_precipitation_data(period) ==
    IF IsNum(period.quantitativePrecipitation)
    THEN Some((period.quantitativePrecipitation[2] * 2540) \div MmPerInch10)
    ELSE None

snow_keywords == {"snow", "blizzard", "sleet", "freezing rain", "ice", "wintry"}

\* _is_snow_period: a keyword in shortForecast + detailedForecast + icon
is_snow_period(period) ==
    \E keyword \in snow_keywords : keyword \in (period.forecast \cup period.icon)

\* the brackets of _qpf_to_snow_depth closed below: >= in place of >
snow_ratio_closed_below(period_temp) ==
    IF period_temp >= 30 THEN 80
    ELSE IF period_temp >= 25 THEN 95
    ELSE IF period_temp >= 20 THEN 100
    ELSE IF period_temp >= 15 THEN 120
    ELSE 150

\* the snow-to-liquid ratio of _qpf_to_snow_depth, in tenths
snow_ratio(period_temp) ==
    IF period_temp > 30 THEN 80
    ELSE IF period_temp > 25 THEN 95
    ELSE IF period_temp > 20 THEN 100
    ELSE IF period_temp > 15 THEN 120
    ELSE 150

\* _qpf_to_snow_depth: QPF (1/2540 inch) to snow depth (1/25400 inch)
qpf_to_snow_depth(qpf_inches, period_temp) ==
    IF qpf_inches <= 0 THEN 0 ELSE qpf_inches * snow_ratio(period_temp)

\* _extract_visibility, in hundredths of a mile: a value of 0 is dropped
extract_visibility(period) ==
    LET val == extract_number(period.visibility)
    IN  IF val # None /\ val[1] # 0 THEN val ELSE None

\* _extract_wind_speed, in mph: `if val:` drops a reported speed of 0
extract_wind_speed(period) ==
    LET val == extract_number(period.windSpeed)
    IN  IF val # None /\ val[1] # 0 THEN val ELSE None

\* period.get('temperature', 32): the raw number, whatever its unit
raw_temperature(period) ==
    IF period.temperature = Absent THEN Some(32)
    ELSE IF period.temperature = Null THEN None
    ELSE Some(period.temperature[2])

\* _get_temperature_fahrenheit, in tenths of a degree
get_temperature_fahrenheit(period) ==
    IF ~IsNum(period.temperature) THEN None
    ELSE IF period.temperatureUnit \in {"C", "wmoUnit:degC"}
         THEN Some(period.temperature[2] * 18 + 320)
         ELSE Some(period.temperature[2] * 10)

\* math.pow(wind_speed, 0.16) in 1/10000, for the wind speeds of the model
v_power(wind_speed) ==
    CASE wind_speed = 4 -> 12483
      [] wind_speed = 5 -> 12937
      [] wind_speed = 10 -> 14454
      [] wind_speed = 20 -> 16150
      [] wind_speed = 26 -> 16842
      [] wind_speed = 30 -> 17232
      [] wind_speed = 40 -> 18044
      [] wind_speed = 60 -> 19253

\* 35.74 + 0.6215 T - 35.75 V^0.16 + 0.4275 T V^0.16, in millionths
nws_wind_chill(temp10, wind_speed) ==
    LET p == v_power(wind_speed)
    IN  35740000 + 62150 * temp10 - 3575 * p + (171 * temp10 * p) \div 40

\* _extract_wind_chill, in millionths of a degree F
extract_wind_chill(period) ==
    LET temp == get_temperature_fahrenheit(period)
        wind_speed == extract_wind_speed(period)
    IN  IF temp = None \/ wind_speed = None THEN None
        ELSE IF temp[1] > 500 \/ wind_speed[1] <= 3
             THEN Some(temp[1] * (Deg \div 10))
             ELSE Some(nws_wind_chill(temp[1], wind_speed[1]))

\* _get_forecast_age: whole hours from now to the day's first period, >= 0
get_forecast_age(day_hours, now) ==
    IF day_hours = <<>> THEN 72
    ELSE Max({0, fromisoformat(day_hours[1].startTime).abs - now})

(***************************************************************************)
(* Analysis functions                                                      *)
(***************************************************************************)
\* a snow period whose QPF is present and > 0 (`if qpf and qpf > 0`)
has_measurable_snow(period) ==
    /\ is_snow_period(period)
    /\ extract_precipitation_data(period) # None
    /\ extract_precipitation_data(period)[1] > 0

\* the snow depth the analyzers give a period with measurable snow; the
\* ratio is chosen by the raw temperature number
period_snow_depth(period) ==
    qpf_to_snow_depth(extract_precipitation_data(period)[1],
                      raw_temperature(period)[1])

\* the points one period adds in analyze_early_morning_timing's loop
timing_points(period) ==
    IF ~has_measurable_snow(period) THEN 0
    ELSE LET snow_depth == period_snow_depth(period)
             hour == hour_of(period)
         IN  IF 5 <= hour /\ hour <= 9
             THEN IF snow_depth >= (40 * Inch) \div 100 THEN 35
                  ELSE IF snow_depth >= (15 * Inch) \div 100 THEN 20
                  ELSE 8
             ELSE IF 3 <= hour /\ hour < 5
             THEN IF snow_depth >= (30 * Inch) \div 100 THEN 18
                  ELSE IF snow_depth > 0 THEN 10
                  ELSE 0
             ELSE 0

\* the depth one period adds to critical_window_snow
critical_depth(period) ==
    IF has_measurable_snow(period) /\ 5 <= hour_of(period) /\ hour_of(period) <= 9
    THEN period_snow_depth(period)
    ELSE 0

RECURSIVE sum(_)
\* the running `score +=` / `total +=` of the analyzers' loops, over the
\* amounts the periods add
sum(values) ==
    IF values = <<>> THEN 0 ELSE Head(values) + sum(Tail(values))

RECURSIVE count_run(_, _, _, _, _)
\* the loop of _count_continuous_snow_hours, with its two counters
count_run(day_hours, start_hour, end_hour, consecutive, max_consecutive) ==
    IF day_hours = <<>> THEN max_consecutive
    ELSE LET period == Head(day_hours)
             c == IF /\ start_hour <= hour_of(period)
                     /\ hour_of(period) <= end_hour
                     /\ has_measurable_snow(period)
                  THEN consecutive + 1
                  ELSE 0
         IN  count_run(Tail(day_hours), start_hour, end_hour, c,
                       Max({max_consecutive, c}))

\* _count_continuous_snow_hours
count_continuous_snow_hours(day_hours, start_hour, end_hour) ==
    count_run(day_hours, start_hour, end_hour, 0, 0)

\* analyze_early_morning_timing: the weighted score (tenths) and its details
analyze_early_morning_timing(day_hours, profile) ==
    LET continuous_hours == count_continuous_snow_hours(day_hours, 5, 9)
        score == sum([i \in DOMAIN day_hours |-> timing_points(day_hours[i])])
                 + (IF continuous_hours >= 3 THEN 15 ELSE 0)
    IN  [score |-> score * profile.timing_weight,
         critical_window_snow_depth |->
             RoundDiv(sum([i \in DOMAIN day_hours |-> critical_depth(day_hours[i])]) * 10, Inch),
         continuous_hours |-> continuous_hours]

\* the depth one period adds in analyze_total_accumulation
accumulation_depth(period) ==
    IF has_measurable_snow(period) THEN period_snow_depth(period) ELSE 0

\* the step function of analyze_total_accumulation, in points
accumulation_steps(total_snow, threshold) ==
    IF total_snow >= 6 * Inch THEN 45
    ELSE IF total_snow >= 5 * Inch THEN 40
    ELSE IF total_snow >= 4 * Inch THEN 35
    ELSE IF total_snow >= threshold THEN 25
    ELSE IF total_snow >= (25 * Inch) \div 10 THEN 15
    ELSE IF total_snow >= 1 * Inch THEN 5
    ELSE IF total_snow >= (5 * Inch) \div 10 THEN 2
    ELSE 0

\* analyze_total_accumulation: (score in tenths, total_snow)
analyze_total_accumulation(day_hours, profile) ==
    LET total_snow == sum([i \in DOMAIN day_hours |-> accumulation_depth(day_hours[i])])
    IN  [score |-> accumulation_steps(total_snow, profile.accumulation_threshold) * Pt,
         total_snow |-> total_snow]

RECURSIVE last_snow(_, _)
\* the loop that keeps the hour of the last period with measurable snow
last_snow(day_hours, last_snow_hour) ==
    IF day_hours = <<>> THEN last_snow_hour
    ELSE last_snow(Tail(day_hours),
                   IF has_measurable_snow(Head(day_hours))
                   THEN Some(hour_of(Head(day_hours)))
                   ELSE last_snow_hour)

\* the raw temperatures of the periods whose hour is in lo..hi
temps_in(day_hours, lo, hi) ==
    { raw_temperature(day_hours[i])[1] :
        i \in { j \in DOMAIN day_hours :
                  lo <= hour_of(day_hours[j]) /\ hour_of(day_hours[j]) <= hi } }

\* analyze_refreeze_risk: (score in tenths, has_refreeze_risk)
analyze_refreeze_risk(day_hours) ==
    LET last_snow_hour == last_snow(day_hours, None)
        temps_after == temps_in(day_hours, 4, 10)
    IN  IF last_snow_hour = None THEN [score |-> 0, has_refreeze_risk |-> FALSE]
        ELSE IF last_snow_hour[1] <= 4 /\ temps_after # {}
        THEN IF Min(temps_after) < 20
             THEN [score |-> 22 * Pt, has_refreeze_risk |-> TRUE]
             ELSE IF Min(temps_after) < 28
             THEN [score |-> 12 * Pt, has_refreeze_risk |-> TRUE]
             ELSE [score |-> 0, has_refreeze_risk |-> FALSE]
        ELSE [score |-> 0, has_refreeze_risk |-> FALSE]

\* the raw temperature of a period between 6:00 and 18:00, else 0
daytime_temp(period) ==
    IF 6 <= hour_of(period) /\ hour_of(period) <= 18
    THEN raw_temperature(period)[1] ELSE 0

\* analyze_road_conditions, in tenths
analyze_road_conditions(day_hours) ==
    LET daytime == { i \in DOMAIN day_hours :
                       6 <= hour_of(day_hours[i]) /\ hour_of(day_hours[i]) <= 18 }
        n == Cardinality(daytime)
        total == sum([i \in DOMAIN day_hours |-> daytime_temp(day_hours[i])])
        temps == temps_in(day_hours, 6, 18)
        visibilities == { extract_visibility(day_hours[i])[1] :
                            i \in { j \in daytime :
                                      extract_visibility(day_hours[j]) # None } }
        has_snow == \E i \in DOMAIN day_hours : is_snow_period(day_hours[i])
    IN  IF n = 0 THEN 0
        ELSE Pt * ( (IF total < 15 * n THEN 16
                     ELSE IF total < 25 * n THEN 10
                     ELSE IF total < 32 * n THEN 5
                     ELSE 0)
                  + (IF Min(temps) < 32 THEN 6 ELSE 0)
                  + (IF has_snow /\ visibilities # {}
                     THEN IF Min(visibilities) < 25 THEN 15
                          ELSE IF Min(visibilities) < 50 THEN 10
                          ELSE IF Min(visibilities) < 100 THEN 6
                          ELSE 0
                     ELSE 0) )

\* the points one period adds in analyze_drifting_risk's second loop;
\* `elif last_snow_hour and ...` is false for a last snow hour of 0
drifting_points(period, last_snow_hour) ==
    LET wind == extract_wind_speed(period)
    IN  IF wind # None /\ wind[1] > 25
        THEN IF is_snow_period(period) THEN 12
             ELSE IF /\ last_snow_hour # None
                     /\ last_snow_hour[1] # 0
                     /\ 0 <= hour_of(period) - last_snow_hour[1]
                     /\ hour_of(period) - last_snow_hour[1] <= 6
                  THEN 8
                  ELSE 0
        ELSE 0

\* analyze_drifting_risk, in tenths
analyze_drifting_risk(day_hours) ==
    LET last_snow_hour == last_snow(day_hours, None)
        points(period) == drifting_points(period, last_snow_hour)
    IN  IF last_snow_hour = None THEN 0
        ELSE Pt * Min({sum([i \in DOMAIN day_hours |-> points(day_hours[i])]), 20})

\* the points one period adds in analyze_hazardous_precip (shortForecast
\* and detailedForecast only)
hazard_points(period) ==
    IF "freezing rain" \in period.forecast THEN 50
    ELSE IF "ice storm" \in period.forecast THEN 48
    ELSE IF "sleet" \in period.forecast \/ "ice pellets" \in period.forecast THEN 35
    ELSE IF "freezing drizzle" \in period.forecast THEN 20
    ELSE 0

\* analyze_hazardous_precip, in tenths
analyze_hazardous_precip(day_hours) ==
    Pt * Min({sum([i \in DOMAIN day_hours |-> hazard_points(day_hours[i])]), 50})

\* no alert label (Python's None where a label is expected)
NoAlert == "None"

\* the score analyze_alerts gives an event string, by the first category
\* of its if/elif chain the string contains; 0 for an unknown event
alert_category(event) ==
    IF "Blizzard Warning" \in event THEN [label |-> "Blizzard Warning", score |-> 50]
    ELSE IF "Ice Storm Warning" \in event THEN [label |-> "Ice Storm Warning", score |-> 48]
    ELSE IF "Winter Storm Warning" \in event THEN [label |-> "Winter Storm Warning", score |-> 40]
    ELSE IF "Winter Weather Advisory" \in event THEN [label |-> "Winter Weather Advisory", score |-> 20]
    ELSE [label |-> NoAlert, score |-> 0]

\* the alert's two time stamps are present and parse (else the loop body
\* does nothing: a missing stamp, or the ValueError that is caught)
alert_times_ok(alert) == iso_ok(alert.effective) /\ iso_ok(alert.expires)

\* the window left at the day's first period, without replace(hour=3)
overlaps_from_day_start(alert, day_hours) ==
    LET day_start == fromisoformat(day_hours[1].startTime)
    IN  ~ ( \/ fromisoformat(alert.expires).abs < day_start.abs
            \/ fromisoformat(alert.effective).abs > day_start.date * 24 + 10 )

\* not (expires < decision_window_start or effective > decision_window_end)
overlaps_decision_window(alert, day_hours) ==
    LET day_start == fromisoformat(day_hours[1].startTime)
        decision_window_start == day_start.date * 24 + 3
        decision_window_end == day_start.date * 24 + 10
    IN  ~ ( \/ fromisoformat(alert.expires).abs < decision_window_start
            \/ fromisoformat(alert.effective).abs > decision_window_end )

RECURSIVE alerts_loop_last_wins(_, _, _)
\* the loop without its `highest_score <` tests: the last match is kept
alerts_loop_last_wins(alerts, day_hours, highest) ==
    IF alerts = <<>> THEN highest
    ELSE LET alert == Head(alerts)
             cat == alert_category(alert.event)
         IN  alerts_loop_last_wins(Tail(alerts), day_hours,
                 IF /\ alert_times_ok(alert)
                    /\ overlaps_decision_window(alert, day_hours)
                    /\ cat.score > 0
                 THEN [label |-> cat.label, score |-> cat.score * Pt]
                 ELSE highest)

RECURSIVE alerts_loop(_, _, _)
\* the loop of analyze_alerts over self.alerts, with its running maximum
alerts_loop(alerts, day_hours, highest) ==
    IF alerts = <<>> THEN highest
    ELSE LET alert == Head(alerts)
             cat == alert_category(alert.event)
         IN  alerts_loop(Tail(alerts), day_hours,
                 IF /\ alert_times_ok(alert)
                    /\ overlaps_decision_window(alert, day_hours)
                    /\ cat.score > 0
                    /\ highest.score < cat.score * Pt
                 THEN [label |-> cat.label, score |-> cat.score * Pt]
                 ELSE highest)

\* analyze_alerts: (highest_alert, highest_score in tenths); self.alerts is
\* None (the alerts request did not answer 200) or a list
analyze_alerts(day_hours, alerts) ==
    IF IsEmpty(alerts) THEN [label |-> NoAlert, score |-> 0]
    ELSE alerts_loop(alerts[1], day_hours, [label |-> NoAlert, score |-> 0])

(***************************************************************************)
(* Decision logic                                                          *)
(***************************************************************************)
\* _compute_min_bus_chill: minimum wind chill of hours 6..9, 32.0 if none
compute_min_bus_chill(day_hours) ==
    LET bus_hour_chills ==
          { extract_wind_chill(day_hours[i])[1] :
              i \in { j \in DOMAIN day_hours :
                        /\ 6 <= hour_of(day_hours[j])
                        /\ hour_of(day_hours[j]) <= 9
                        /\ extract_wind_chill(day_hours[j]) # None } }
    IN  IF bus_hour_chills # {} THEN Min(bus_hour_chills) ELSE 32 * Deg

\* analyze_extreme_cold_day, in tenths: only on a day with no snow period
analyze_extreme_cold_day(day_hours, min_bus_chill) ==
    IF \E i \in DOMAIN day_hours : is_snow_period(day_hours[i]) THEN 0
    ELSE Pt * ( IF min_bus_chill <= -25 * Deg THEN 40
                ELSE IF min_bus_chill <= -22 * Deg THEN 38
                ELSE IF min_bus_chill <= -20 * Deg THEN 32
                ELSE IF min_bus_chill <= -18 * Deg THEN 25
                ELSE IF min_bus_chill <= -15 * Deg THEN 15
                ELSE 0 )

\* the wind-chill steps with their minus signs lost
windchill_danger_unsigned(min_bus_chill) ==
    Pt * ( IF min_bus_chill <= 25 * Deg THEN 35
           ELSE IF min_bus_chill <= 20 * Deg THEN 25
           ELSE IF min_bus_chill <= 15 * Deg THEN 18
           ELSE IF min_bus_chill <= 10 * Deg THEN 12
           ELSE IF min_bus_chill <= 5 * Deg THEN 6
           ELSE 0 )

\* the windchill_danger_score of _calculate_severity_score, in tenths
windchill_danger(min_bus_chill) ==
    Pt * ( IF min_bus_chill <= -25 * Deg THEN 35
           ELSE IF min_bus_chill <= -20 * Deg THEN 25
           ELSE IF min_bus_chill <= -15 * Deg THEN 18
           ELSE IF min_bus_chill <= -10 * Deg THEN 12
           ELSE IF min_bus_chill <= -5 * Deg THEN 6
           ELSE 0 )

\* a comparison or a sum in the analyzers meets None and raises TypeError:
\* a null temperature in a period with measurable snow (_qpf_to_snow_depth),
\* in the refreeze window when snow ended by 4:00 (min, <), or between 6:00
\* and 18:00 (sum)
severity_raises(day_hours) ==
    \E i \in DOMAIN day_hours :
        /\ day_hours[i].temperature = Null
        /\ \/ has_measurable_snow(day_hours[i])
           \/ 6 <= hour_of(day_hours[i]) /\ hour_of(day_hours[i]) <= 18
           \/ /\ 4 <= hour_of(day_hours[i]) /\ hour_of(day_hours[i]) <= 10
              /\ last_snow(day_hours, None) # None
              /\ last_snow(day_hours, None)[1] <= 4

\* _calculate_severity_score, for a day on which it does not raise
calculate_severity_score(day_hours, alerts, profile) ==
    LET timing == analyze_early_morning_timing(day_hours, profile)
        accumulation == analyze_total_accumulation(day_hours, profile)
        refreeze == analyze_refreeze_risk(day_hours)
        hazard_score == analyze_hazardous_precip(day_hours)
        road_score == analyze_road_conditions(day_hours)
        drifting_score == analyze_drifting_risk(day_hours)
        min_bus_chill == compute_min_bus_chill(day_hours)
        extreme_cold_score == analyze_extreme_cold_day(day_hours, min_bus_chill)
        windchill_danger_score == windchill_danger(min_bus_chill)
        alert == analyze_alerts(day_hours, alerts)
    IN  [base_score |-> timing.score + accumulation.score + refreeze.score
                        + hazard_score + road_score + drifting_score
                        + windchill_danger_score + extreme_cold_score,
         alert_type |-> alert.label,
         early_morning |-> timing.score,
         accumulation |-> accumulation.score,
         total_snow |-> accumulation.total_snow,
         total_snow_inches |-> RoundDiv(accumulation.total_snow * 10, Inch),
         refreeze_risk |-> refreeze.score,
         hazardous_precip |-> hazard_score,
         drifting_risk |-> drifting_score,
         windchill_danger |-> windchill_danger_score,
         extreme_cold |-> extreme_cold_score,
         min_bus_chill |-> RoundDiv(min_bus_chill, Deg),
         road_conditions |-> road_score,
         critical_window_snow_depth |-> timing.critical_window_snow_depth,
         continuous_hours |-> timing.continuous_hours,
         has_refreeze |-> refreeze.has_refreeze_risk]

\* the severity buckets swapped at 40..60: 55 below 50, 42 from 50
probability_band_swapped(severity_score) ==
    IF severity_score < 10 * Pt THEN [probability |-> 2, confidence |-> 9500]
    ELSE IF severity_score < 20 * Pt THEN [probability |-> 8, confidence |-> 9000]
    ELSE IF severity_score < 30 * Pt THEN [probability |-> 15, confidence |-> 8500]
    ELSE IF severity_score < 40 * Pt THEN [probability |-> 28, confidence |-> 8200]
    ELSE IF severity_score < 50 * Pt THEN [probability |-> 55, confidence |-> 8000]
    ELSE IF severity_score < 60 * Pt THEN [probability |-> 42, confidence |-> 8000]
    ELSE IF severity_score < 70 * Pt THEN [probability |-> 68, confidence |-> 8200]
    ELSE IF severity_score < 80 * Pt THEN [probability |-> 76, confidence |-> 8500]
    ELSE IF severity_score < 90 * Pt THEN [probability |-> 82, confidence |-> 8700]
    ELSE [probability |-> 88, confidence |-> 9000]

\* the probability taken as the score itself, in place of the buckets
probability_band_linear(severity_score) ==
    [probability |-> severity_score \div Pt, confidence |-> 9000]

\* the severity buckets of _severity_to_probability, for a score in tenths
probability_band(severity_score) ==
    IF severity_score < 10 * Pt THEN [probability |-> 2, confidence |-> 9500]
    ELSE IF severity_score < 20 * Pt THEN [probability |-> 8, confidence |-> 9000]
    ELSE IF severity_score < 30 * Pt THEN [probability |-> 15, confidence |-> 8500]
    ELSE IF severity_score < 40 * Pt THEN [probability |-> 28, confidence |-> 8200]
    ELSE IF severity_score < 50 * Pt THEN [probability |-> 42, confidence |-> 8000]
    ELSE IF severity_score < 60 * Pt THEN [probability |-> 55, confidence |-> 8000]
    ELSE IF severity_score < 70 * Pt THEN [probability |-> 68, confidence |-> 8200]
    ELSE IF severity_score < 80 * Pt THEN [probability |-> 76, confidence |-> 8500]
    ELSE IF severity_score < 90 * Pt THEN [probability |-> 82, confidence |-> 8700]
    ELSE [probability |-> 88, confidence |-> 9000]

\* _severity_to_probability: (probability, confidence in 1/10000) for a
\* severity score in tenths
severity_to_probability(severity_score, alert_type) ==
    IF alert_type = "Blizzard Warning" THEN [probability |-> 85, confidence |-> 9500]
    ELSE IF alert_type = "Ice Storm Warning" THEN [probability |-> 80, confidence |-> 9300]
    ELSE IF alert_type = "Winter Storm Warning" THEN [probability |-> 70, confidence |-> 8800]
    ELSE IF alert_type = "Winter Weather Advisory" THEN [probability |-> 45, confidence |-> 7500]
    ELSE [probability |-> Min({99, probability_band(severity_score).probability}),
          confidence |-> probability_band(severity_score).confidence]

\* the forecast-age decay and the floor of calculate_next_weekday_probabilities
decay_confidence(confidence, forecast_age) ==
    Max({5000,
         IF forecast_age > 72 THEN (confidence * 80) \div 100
         ELSE IF forecast_age > 48 THEN (confidence * 90) \div 100
         ELSE confidence})

\* the label chain with <= for <
likelihood_label_closed(probability) ==
    IF probability <= 15 THEN "VERY UNLIKELY"
    ELSE IF probability <= 35 THEN "UNLIKELY"
    ELSE IF probability <= 55 THEN "POSSIBLE"
    ELSE IF probability <= 75 THEN "LIKELY"
    ELSE "VERY LIKELY"

\* the likelihood label of calculate_next_weekday_probabilities
likelihood_label(probability) ==
    IF probability < 15 THEN "VERY UNLIKELY"
    ELSE IF probability < 35 THEN "UNLIKELY"
    ELSE IF probability < 55 THEN "POSSIBLE"
    ELSE IF probability < 75 THEN "LIKELY"
    ELSE "VERY LIKELY"

\* round(confidence, 2), in hundredths; the three products that lie half
\* way in decimal (0.95, 0.75, 0.85 times 0.90) round as their floats do
round_confidence(confidence) ==
    IF confidence % 100 # 50 THEN RoundDiv(confidence, 100)
    ELSE CASE confidence = 8550 -> 85
           [] confidence = 6750 -> 68
           [] confidence = 7650 -> 77

\* date.weekday() of a proleptic ordinal: Monday is 0, Sunday is 6
weekday(ordinal) == (ordinal + 6) % 7

RECURSIVE group_loop_prepending(_, _)
\* the grouping loop putting each period at the front of its bucket
group_loop_prepending(periods, by_date) ==
    IF periods = <<>> THEN by_date
    ELSE LET period == Head(periods)
             day_date == fromisoformat(period.startTime).date
         IN  group_loop_prepending(Tail(periods),
                 IF day_date \in DOMAIN by_date
                 THEN [by_date EXCEPT ![day_date] = <<period>> \o @]
                 ELSE [d \in DOMAIN by_date \cup {day_date} |->
                         IF d = day_date THEN <<period>> ELSE by_date[d]])

RECURSIVE group_loop(_, _)
\* the grouping loop: periods_by_date[day_date].append(period)
group_loop(periods, by_date) ==
    IF periods = <<>> THEN by_date
    ELSE LET period == Head(periods)
             day_date == fromisoformat(period.startTime).date
         IN  group_loop(Tail(periods),
                 IF day_date \in DOMAIN by_date
                 THEN [by_date EXCEPT ![day_date] = Append(@, period)]
                 ELSE [d \in DOMAIN by_date \cup {day_date} |->
                         IF d = day_date THEN <<period>> ELSE by_date[d]])

RECURSIVE sorted(_)
\* sorted(periods_by_date.keys())
sorted(keys) ==
    IF keys = {} THEN <<>>
    ELSE <<Min(keys)>> \o sorted(keys \ {Min(keys)})

(***************************************************************************)
(* State                                                                   *)
(***************************************************************************)
VARIABLES
    server,           \* what the geocoder and the NWS answer to each request
    now,              \* datetime.now(), in hours since ordinal 0, 00:00
    district_profile, \* self.district_profile
    hourly_forecast,  \* self.hourly_forecast
    alerts,           \* self.alerts
    error_message,    \* self.error_message
    pc,               \* where calculate_next_weekday_probabilities stands
    periods_by_date,  \* its local periods_by_date
    pending,          \* the dates its for loop has still to visit
    results,          \* its local results
    counted_days,     \* its local counted_days
    day_hours,        \* the day being scored
    severity,         \* the dict _calculate_severity_score returned
    alert_found,      \* (alert_type, alert_score) as analyze_alerts returned it
    probability,      \* the local probability
    confidence,       \* the local confidence
    forecast_age,     \* the local forecast_age
    ret               \* the value returned, None while running

vars == <<server, now, district_profile, hourly_forecast, alerts, error_message,
          pc, periods_by_date, pending, results, counted_days, day_hours,
          severity, alert_found, probability, confidence, forecast_age, ret>>

self_vars == <<district_profile, hourly_forecast, alerts, error_message>>
env_vars == <<server, now>>
loop_vars == <<periods_by_date, pending, results, counted_days>>
day_vars == <<day_hours, severity, alert_found, probability, confidence,
              forecast_age>>

(***************************************************************************)
(* Bounds and inputs                                                       *)
(***************************************************************************)
\* the dates the hourly forecast of the model may cover
NumDates == 8
\* the periods of a multi-period day given to the day scorer
MaxDayLen == 2
\* the alerts of a multi-alert list
MaxAlerts == 2
\* the severity scores given to the probability mapper, in points
MaxScore == 105

\* the first date of the forecast horizon: ordinal 8 is a Monday, 11 the
\* Thursday after it, so that a weekend lies inside the horizon
FirstDate == 7 + 4
Horizon == FirstDate .. (FirstDate + NumDates - 1)

Period(date, hour, forecast, qpf, temp, unit, wind, vis) ==
    [startTime |-> <<"at", date, hour>>, forecast |-> forecast, icon |-> {},
     quantitativePrecipitation |-> qpf, temperature |-> temp,
     temperatureUnit |-> unit, windSpeed |-> wind, visibility |-> vis]

\* the periods the forecast holds for a date: a snowy morning on odd dates,
\* a mild dry day on even dates
DayTemplate(date) ==
    IF date % 2 = 1
    THEN << Period(date, 5, {"snow"}, Num(127), Num(25), "F", Num(10), Num(50)),
            Period(date, 7, {"snow"}, Num(20), Num(24), "F", Num(30), Absent) >>
    ELSE << Period(date, 6, {}, Num(0), Num(40), "F", Num(5), Absent),
            Period(date, 12, {}, Absent, Num(45), "F", Absent, Absent) >>

RECURSIVE Flatten(_, _)
\* the periods of the chosen dates, in ascending order of time
Flatten(dates, chosen) ==
    IF dates = <<>> THEN <<>>
    ELSE (IF Head(dates) \in chosen THEN DayTemplate(Head(dates)) ELSE <<>>)
         \o Flatten(Tail(dates), chosen)

RECURSIVE Reverse(_)
Reverse(s) == IF s = <<>> THEN <<>> ELSE Reverse(Tail(s)) \o <<Head(s)>>

\* a period whose startTime does not parse
BadPeriod == [Period(0, 0, {}, Absent, Num(40), "F", Absent, Absent)
                EXCEPT !.startTime = <<"bad">>]

\* the periods of two dates, taken in turn
Interleave(d, e) ==
    << DayTemplate(d)[1], DayTemplate(e)[1], DayTemplate(d)[2], DayTemplate(e)[2] >>

\* the period lists the NWS may answer: any subset of the horizon's dates,
\* oldest or newest first, possibly with one period with a bad startTime,
\* and the periods of two dates mixed
Datasets ==
    LET good == { Flatten(sorted(Horizon), chosen) : chosen \in SUBSET Horizon }
    IN  good \cup { Reverse(d) : d \in good }
             \cup { <<BadPeriod>> \o d : d \in good }
             \cup { d \o <<BadPeriod>> : d \in good }
             \cup { Interleave(de[1], de[2]) :
                        de \in { x \in Horizon \X Horizon : x[1] # x[2] } }

\* an alert of the /alerts/active answer
Alert(event, effective, expires) ==
    [event |-> event, effective |-> effective, expires |-> expires]

At(date, hour) == <<"at", date, hour>>

\* the event strings of the model, as the sets of categories they contain
Events == { {"Blizzard Warning"}, {"Ice Storm Warning"}, {"Winter Storm Warning"},
            {"Winter Weather Advisory"}, {"Wind Chill Warning"} }

(***************************************************************************)
(* Data fetching                                                           *)
(***************************************************************************)
\* the answers a request may get
Answers == {"ok", "non200", "exception"}

\* fetch_weather_data with get_coordinates_from_zip and get_location_metadata:
\* its return value and the fields of self it leaves.  "empty" is a 200
\* answer of /points whose 'properties' is null or empty: `if not metadata`
\* returns False and nothing has set error_message.
fetch_weather_data(srv, self) ==
    IF srv.zip = "non200"
    THEN [ok |-> FALSE, fields |-> [self EXCEPT !.error_message = Some("Invalid ZIP code")]]
    ELSE IF srv.zip = "exception"
    THEN [ok |-> FALSE, fields |-> [self EXCEPT !.error_message = Some("Failed to geocode ZIP code")]]
    ELSE IF srv.metadata = "non200"
    THEN [ok |-> FALSE, fields |-> [self EXCEPT !.error_message = Some("Failed to get location metadata")]]
    ELSE IF srv.metadata = "exception"
    THEN [ok |-> FALSE, fields |-> [self EXCEPT !.error_message = Some("Error fetching location metadata")]]
    ELSE IF srv.metadata = "empty"
    THEN [ok |-> FALSE, fields |-> self]
    ELSE IF srv.hourly = "non200"
    THEN [ok |-> FALSE, fields |-> [self EXCEPT !.error_message = Some("Failed to fetch hourly forecast")]]
    ELSE IF srv.hourly = "exception"
    THEN [ok |-> FALSE, fields |-> [self EXCEPT !.error_message = Some("Error fetching weather data")]]
    ELSE IF srv.alerts = "exception"
    THEN [ok |-> FALSE,
          fields |-> [self EXCEPT !.hourly_forecast = srv.periods,
                                  !.error_message = Some("Error fetching weather data")]]
    ELSE IF srv.alerts = "non200"
    THEN [ok |-> TRUE, fields |-> [self EXCEPT !.hourly_forecast = srv.periods]]
    ELSE [ok |-> TRUE,
          fields |-> [self EXCEPT !.hourly_forecast = srv.periods,
                                  !.alerts = Some(srv.features)]]

(***************************************************************************)
(* calculate_next_weekday_probabilities, step by step                      *)
(***************************************************************************)
\* `if not self.fetch_weather_data():`
FetchWeatherData ==
    /\ pc = "start"
    /\ LET r == fetch_weather_data(server,
                   [hourly_forecast |-> hourly_forecast, alerts |-> alerts,
                    error_message |-> error_message])
       IN  /\ hourly_forecast' = r.fields.hourly_forecast
           /\ alerts' = r.fields.alerts
           /\ error_message' = r.fields.error_message
           /\ pc' = IF r.ok THEN "fetched" ELSE "fetch_failed"
    /\ UNCHANGED <<env_vars, district_profile, loop_vars, day_vars, ret>>

\* the return of the failed fetch
ReturnFetchError ==
    /\ pc = "fetch_failed"
    /\ ret' = Some([success |-> FALSE, error |-> error_message, probabilities |-> <<>>])
    /\ pc' = "done"
    /\ UNCHANGED <<env_vars, self_vars, loop_vars, day_vars>>

\* `if not self.hourly_forecast:` None or an empty list
ReturnNoData ==
    /\ pc = "fetched"
    /\ IsEmpty(hourly_forecast)
    /\ ret' = Some([success |-> FALSE,
                    error |-> Some("No hourly forecast data available"),
                    probabilities |-> <<>>])
    /\ pc' = "done"
    /\ UNCHANGED <<env_vars, self_vars, loop_vars, day_vars>>

\* the grouping loop; fromisoformat raises ValueError on a startTime it
\* rejects, and nothing catches it
GroupPeriods ==
    /\ pc = "fetched"
    /\ ~IsEmpty(hourly_forecast)
    /\ IF \E i \in DOMAIN hourly_forecast[1] : ~iso_ok(hourly_forecast[1][i].startTime)
       THEN /\ pc' = "raised"
            /\ UNCHANGED loop_vars
       ELSE /\ periods_by_date' = group_loop(hourly_forecast[1], << >>)
            /\ pending' = sorted(DOMAIN periods_by_date')
            /\ results' = <<>>
            /\ counted_days' = 0
            /\ pc' = "loop"
    /\ UNCHANGED <<env_vars, self_vars, day_vars, ret>>

\* today = datetime.now().date()
today == now \div 24

\* the filter with < for <= and > for >=
skips_off_by_one(day_date) == day_date < today \/ weekday(day_date) > 5

\* `if day_date <= today or weekday_num >= 5: continue`
skips(day_date) == day_date <= today \/ weekday(day_date) >= 5

SkipDay ==
    /\ pc = "loop"
    /\ pending # <<>>
    /\ skips(Head(pending))
    /\ pending' = Tail(pending)
    /\ UNCHANGED <<env_vars, self_vars, pc, periods_by_date, results, counted_days,
                   day_vars, ret>>

\* day_hours = periods_by_date[day_date]
TakeDay ==
    /\ pc = "loop"
    /\ pending # <<>>
    /\ ~skips(Head(pending))
    /\ day_hours' = periods_by_date[Head(pending)]
    /\ pc' = "severity"
    /\ UNCHANGED <<env_vars, self_vars, loop_vars, severity, alert_found,
                   probability, confidence, forecast_age, ret>>

\* the scoring with the alert list consumed as it is read
CalculateSeverityDrainingAlerts ==
    /\ pc = "severity"
    /\ IF severity_raises(day_hours)
       THEN /\ pc' = "raised"
            /\ UNCHANGED <<severity, alert_found, alerts>>
       ELSE /\ severity' = calculate_severity_score(day_hours, alerts,
                                                    ProfileOf(district_profile))
            /\ alert_found' = analyze_alerts(day_hours, alerts)
            /\ alerts' = IF alerts = None THEN None ELSE Some(<<>>)
            /\ pc' = "probability"
    /\ UNCHANGED <<env_vars, district_profile, hourly_forecast, error_message,
                   loop_vars, day_hours, probability, confidence, forecast_age, ret>>

\* severity = self._calculate_severity_score(day_hours)
CalculateSeverity ==
    /\ pc = "severity"
    /\ IF severity_raises(day_hours)
       THEN /\ pc' = "raised"
            /\ UNCHANGED <<severity, alert_found>>
       ELSE /\ severity' = calculate_severity_score(day_hours, alerts,
                                                    ProfileOf(district_profile))
            /\ alert_found' = analyze_alerts(day_hours, alerts)
            /\ pc' = "probability"
    /\ UNCHANGED <<env_vars, self_vars, loop_vars, day_hours, probability,
                   confidence, forecast_age, ret>>

\* probability, confidence = self._severity_to_probability(...)
SeverityToProbability ==
    /\ pc = "probability"
    /\ LET r == severity_to_probability(severity.base_score, severity.alert_type)
       IN  /\ probability' = r.probability
           /\ confidence' = r.confidence
    /\ pc' = "decay"
    /\ UNCHANGED <<env_vars, self_vars, loop_vars, day_hours, severity,
                   alert_found, forecast_age, ret>>

\* forecast_age = self._get_forecast_age(day_hours), the decay and the floor
DecayConfidence ==
    /\ pc = "decay"
    /\ forecast_age' = get_forecast_age(day_hours, now)
    /\ confidence' = decay_confidence(confidence, forecast_age')
    /\ pc' = "append"
    /\ UNCHANGED <<env_vars, self_vars, loop_vars, day_hours, severity,
                   alert_found, probability, ret>>

\* results.append({...}); counted_days += 1; break at 4
AppendResult ==
    /\ pc = "append"
    /\ results' = Append(results,
                    [date |-> Head(pending),
                     weekday |-> weekday(Head(pending)),
                     probability |-> probability,
                     likelihood |-> likelihood_label(probability),
                     confidence |-> round_confidence(confidence),
                     score_breakdown |-> severity])
    /\ counted_days' = counted_days + 1
    /\ pending' = Tail(pending)
    /\ pc' = IF counted_days' >= 4 THEN "return" ELSE "loop"
    /\ UNCHANGED <<env_vars, self_vars, periods_by_date, day_vars, ret>>

\* the return after the loop ended or broke off
ReturnResults ==
    /\ pc = "return" \/ (pc = "loop" /\ pending = <<>>)
    /\ ret' = Some([success |-> TRUE, error |-> None, probabilities |-> results])
    /\ pc' = "done"
    /\ UNCHANGED <<env_vars, self_vars, loop_vars, day_vars>>

(***************************************************************************)
(* Specifications                                                          *)
(***************************************************************************)
\* the calculator as __init__ leaves it, and the handler's locals unset
Constructed ==
    /\ hourly_forecast = None
    /\ alerts = None
    /\ error_message = None
    /\ periods_by_date = <<>>
    /\ pending = <<>>
    /\ results = <<>>
    /\ counted_days = 0
    /\ severity = [base_score |-> 0, alert_type |-> NoAlert]
    /\ alert_found = [label |-> NoAlert, score |-> 0]
    /\ probability = 0
    /\ confidence = 0
    /\ forecast_age = 0
    /\ ret = None

\* the alert lists of the full runs: none, or a Winter Storm Warning over
\* the morning of the horizon's second day
MainFeatures ==
    { <<>>,
      << Alert({"Winter Storm Warning"}, At(FirstDate + 1, 0), At(FirstDate + 1, 12)) >> }

\* the answers of the services: every request answered, with any dataset;
\* or any mix of failed requests
Servers ==
    { [zip |-> "ok", metadata |-> "ok", hourly |-> "ok", alerts |-> "ok",
       periods |-> p, features |-> f] :
         p \in {None} \cup { Some(d) : d \in Datasets },
         f \in MainFeatures }
    \cup
    { [zip |-> z, metadata |-> m, hourly |-> h, alerts |-> a,
       periods |-> Some(DayTemplate(FirstDate)), features |-> <<>>] :
         z \in Answers, m \in Answers \cup {"empty"}, h \in Answers, a \in Answers }

\* the clock: the Monday before the horizon, its first day (a Thursday),
\* its third day (a Saturday)
Nows == { (FirstDate - 3) * 24 + 8, FirstDate * 24 + 8, (FirstDate + 2) * 24 + 8 }

Init ==
    /\ server \in Servers
    /\ now \in Nows
    /\ district_profile \in {"michigan"}
    /\ pc = "start"
    /\ day_hours = <<>>
    /\ Constructed

Next ==
    \/ FetchWeatherData
    \/ ReturnFetchError
    \/ ReturnNoData
    \/ GroupPeriods
    \/ SkipDay
    \/ TakeDay
    \/ CalculateSeverity
    \/ SeverityToProbability
    \/ DecayConfidence
    \/ AppendResult
    \/ ReturnResults

\* a call of calculate_next_weekday_probabilities on a new calculator
Spec == Init /\ [][Next]_vars

(***************************************************************************)
(* The day scorer on its own: _calculate_severity_score and the mapping    *)
(* of its score, on one day's periods and an alert list                    *)
(***************************************************************************)
\* the date of the day scored on its own: a Friday
DayDate == FirstDate + 1

\* one period, every field varied
RichPeriods ==
    { Period(DayDate, h, f, q, t, u, w, v) :
        h \in {4, 5, 9, 12},
        f \in { {}, {"snow"}, {"freezing drizzle"} },
        q \in { Absent, Num(0), Num(2), Num(10), Num(127) },
        t \in { Absent, Null, Num(-20), Num(15), Num(20), Num(25), Num(26),
                Num(30), Num(31), Num(40), Num(55) },
        u \in { "F", "C" },
        w \in { Absent, Num(0), Num(3), Num(4), Num(20), Num(60) },
        v \in { Absent, Num(20) } }

\* the periods of the days of several periods: dry or snowing, mild or cold,
\* calm or windy, at the hours around the start of the commute
LeanPeriods ==
    { Period(DayDate, h, fq[1], fq[2], t, "F", w, Absent) :
        h \in {5, 6, 7},
        fq \in { <<{}, Num(0)>>, <<{"snow"}, Num(127)>> },
        t \in { Num(40), Num(10) },
        w \in { Absent, Num(30) } }

\* the time stamps of an alert: missing, malformed, or around the decision
\* window of DayDate (03:00 to 10:00)
Stamps ==
    { <<"none">>, <<"bad">>, At(DayDate - 1, 23), At(DayDate, 0), At(DayDate, 2),
      At(DayDate, 3), At(DayDate, 5), At(DayDate, 10), At(DayDate, 11),
      At(DayDate + 1, 3) }

\* one alert, every field varied
RichAlerts == { Alert(e, from, to) : e \in Events, from \in Stamps, to \in Stamps }

\* the alerts of the lists of several alerts: before, over and after the window
LeanAlerts ==
    { Alert(e, iv[1], iv[2]) :
        e \in Events,
        iv \in { <<At(DayDate - 1, 23), At(DayDate, 2)>>,
                 <<At(DayDate, 2), At(DayDate, 5)>>,
                 <<At(DayDate, 11), At(DayDate + 1, 3)>> } }

AlertInputs ==
    { <<a>> : a \in RichAlerts } \cup (UNION { [1..k -> LeanAlerts] : k \in 2..MaxAlerts })

\* days of snow ending at some hour and a dry period of wind at that hour
\* or up to seven hours later
DriftDays ==
    { << Period(DayDate, h, {"snow"}, Num(127), Num(25), "F", Absent, Absent),
         Period(DayDate, h + k, {}, Num(0), Num(25), "F", Num(w), Absent) >> :
        h \in {0, 1, 16}, k \in {0, 3, 6, 7}, w \in {20, 26, 30} }

\* days of two snow periods, at 30 F (ratio 9.5) and at 31 F (ratio 8),
\* whose QPF in tenths of a millimetre gives a total of exactly 3.0, 3.5,
\* 4.5 or 6.0 inches, or of 0.002 inch less
ThresholdDays ==
    { << Period(DayDate, 12, {"snow"}, Num(ab[1]), Num(30), "F", Absent, Absent),
         Period(DayDate, 13, {"snow"}, Num(ab[2]), Num(31), "F", Absent, Absent) >> :
        ab \in { <<1, 94>>, <<12, 81>>, <<11, 98>>, <<6, 104>>,
                 <<15, 125>>, <<10, 131>>, <<13, 175>>, <<8, 181>> } }

\* a dry, mild period
PlainPeriod(date, hour) == Period(date, hour, {}, Num(0), Num(40), "F", Absent, Absent)

InitDay ==
    /\ server = [zip |-> "ok", metadata |-> "ok", hourly |-> "ok", alerts |-> "ok",
                 periods |-> None, features |-> <<>>]
    /\ now = (DayDate - 1) * 24 + 8
    /\ pc = "severity"
    /\ \/ /\ day_hours \in { <<p>> : p \in RichPeriods }
          /\ alerts = None
          /\ district_profile \in { "northville", "michigan" }
       \/ /\ day_hours \in UNION { [1..k -> LeanPeriods] : k \in 2..MaxDayLen }
          /\ alerts = Some(<<>>)
          /\ district_profile \in ProfileNames
       \/ /\ day_hours \in { <<PlainPeriod(DayDate, h)>> : h \in {0, 23} }
          /\ alerts \in { Some(l) : l \in AlertInputs }
          /\ district_profile = "average"
       \/ /\ day_hours \in DriftDays
          /\ alerts = Some(<<>>)
          /\ district_profile = "average"
       \/ /\ day_hours \in ThresholdDays
          /\ alerts = Some(<<>>)
          /\ district_profile \in ProfileNames
    /\ hourly_forecast = Some(day_hours)
    /\ error_message = None
    /\ periods_by_date = [d \in {DayDate} |-> day_hours]
    /\ pending = <<DayDate>>
    /\ results = <<>>
    /\ counted_days = 0
    /\ severity = [base_score |-> 0, alert_type |-> NoAlert]
    /\ alert_found = [label |-> NoAlert, score |-> 0]
    /\ probability = 0
    /\ confidence = 0
    /\ forecast_age = 0
    /\ ret = None

\* a second call of _calculate_severity_score on the same calculator with
\* the same periods, a day later
ScoreAgain ==
    /\ pc = "probability"
    /\ today < DayDate
    /\ now' = now + 24
    /\ severity' = calculate_severity_score(day_hours, alerts,
                                            ProfileOf(district_profile))
    /\ alert_found' = analyze_alerts(day_hours, alerts)
    /\ UNCHANGED <<server, self_vars, loop_vars, pc, day_hours,
                   probability, confidence, forecast_age, ret>>

NextDay ==
    \/ CalculateSeverity
    \/ ScoreAgain
    \/ SeverityToProbability

\* the scoring of one day, entered with the day's periods in hand
SpecDay == InitDay /\ [][NextDay]_vars

(***************************************************************************)
(* The probability mapper on its own: _severity_to_probability, the decay  *)
(* and the result record, on a severity score, an alert label and an age   *)
(***************************************************************************)
AlertLabels == { "Blizzard Warning", "Ice Storm Warning", "Winter Storm Warning",
                 "Winter Weather Advisory" }

\* severity scores in tenths: every half point from -2 to MaxScore, a very
\* negative and a very large one
Scores == { k * 5 : k \in -4 .. 2 * MaxScore } \cup { -1000 * Pt, 10000 * Pt }

\* forecast ages in hours; -5: the day's first period has already begun
Ages == { -5, 0, 1, 48, 49, 72, 73, 200 }

InitMap ==
    /\ server = [zip |-> "ok", metadata |-> "ok", hourly |-> "ok", alerts |-> "ok",
                 periods |-> None, features |-> <<>>]
    /\ day_hours = <<PlainPeriod(DayDate + 14, 5)>>
    /\ now \in { (DayDate + 14) * 24 + 5 - a : a \in Ages }
    /\ pc = "probability"
    /\ severity \in { [base_score |-> sc, alert_type |-> a] :
                        sc \in Scores, a \in AlertLabels \cup {NoAlert} }
    /\ district_profile = "average"
    /\ alerts = None
    /\ hourly_forecast = Some(day_hours)
    /\ error_message = None
    /\ periods_by_date = [d \in {DayDate + 14} |-> day_hours]
    /\ pending = <<DayDate + 14>>
    /\ results = <<>>
    /\ counted_days = 0
    /\ alert_found = [label |-> NoAlert, score |-> 0]
    /\ probability = 0
    /\ confidence = 0
    /\ forecast_age = 0
    /\ ret = None

NextMap ==
    \/ SeverityToProbability
    \/ DecayConfidence
    \/ AppendResult

\* the mapping of one severity score, entered with the score in hand
SpecMap == InitMap /\ [][NextMap]_vars

(***************************************************************************)
(* The result record on its own: the likelihood label and the rounding of  *)
(* calculate_next_weekday_probabilities, on any probability within the     *)
(* clamp of _severity_to_probability                                       *)
(***************************************************************************)
\* the clamp `min(99, probability)`
MaxProbability == 99

InitLabel ==
    /\ server = [zip |-> "ok", metadata |-> "ok", hourly |-> "ok", alerts |-> "ok",
                 periods |-> None, features |-> <<>>]
    /\ day_hours = <<PlainPeriod(DayDate + 14, 5)>>
    /\ now = (DayDate + 14) * 24 + 5
    /\ pc = "append"
    /\ probability \in 0 .. MaxProbability
    /\ confidence \in {5000, 9500}
    /\ severity = [base_score |-> 0, alert_type |-> NoAlert]
    /\ district_profile = "average"
    /\ alerts = None
    /\ hourly_forecast = Some(day_hours)
    /\ error_message = None
    /\ periods_by_date = [d \in {DayDate + 14} |-> day_hours]
    /\ pending = <<DayDate + 14>>
    /\ results = <<>>
    /\ counted_days = 0
    /\ alert_found = [label |-> NoAlert, score |-> 0]
    /\ forecast_age = 0
    /\ ret = None

NextLabel ==
    \/ AppendResult
    \/ ReturnResults

\* the building of one result record, entered with the probability in hand
SpecLabel == InitLabel /\ [][NextLabel]_vars

(***************************************************************************)
(* Properties                                                              *)
(***************************************************************************)
\* the dates the fetched forecast holds periods for
ForecastDates ==
    IF IsEmpty(hourly_forecast) THEN {}
    ELSE { hourly_forecast[1][i].startTime[2] :
             i \in { j \in DOMAIN hourly_forecast[1] :
                       iso_ok(hourly_forecast[1][j].startTime) } }

\* a Saturday or a Sunday: ordinal 1 is a Monday
IsWeekend(date) == date % 7 \in {6, 0}

\* the forecast dates after today that are not on a weekend
Qualifying == { d \in ForecastDates : d > today /\ ~IsWeekend(d) }

\* the four earliest of them
EarliestFour == { d \in Qualifying : Cardinality({ e \in Qualifying : e < d }) < 4 }

\* C1: the results hold no Saturday, no Sunday and no date on or before
\* today, at most four entries, in strictly ascending order of date, and at
\* the return they are the earliest qualifying dates of the forecast
C1_NextWeekdays ==
    /\ Len(results) <= 4
    /\ \A i \in DOMAIN results : results[i].date \in Qualifying
    /\ \A i, j \in DOMAIN results : i < j => results[i].date < results[j].date
    /\ (pc = "done" /\ ret # None /\ ret[1].success) =>
          /\ ret[1].probabilities = results
          /\ { results[i].date : i \in DOMAIN results } = EarliestFour

\* four days returned out of five qualifying ones, today's date and a
\* weekend inside the forecast having been passed over
C1_Witness ==
    /\ pc = "done"
    /\ ret # None
    /\ Len(ret[1].probabilities) = 4
    /\ \E d \in ForecastDates : d = today
    /\ \E d \in ForecastDates : IsWeekend(d) /\ d < ret[1].probabilities[4].date
    /\ \E d \in Qualifying : d > ret[1].probabilities[4].date

\* C2: the probability is an integer from 0 to 99 and the confidence, after
\* the decay and the floor, lies between 0.5 and 0.95, for every severity
\* score (negative and very large ones included), alert label and age
C2_Clamped ==
    /\ pc \in {"decay", "append", "loop", "return"} => probability \in 0 .. 99
    /\ pc \in {"append", "loop", "return"} => confidence \in 5000 .. 9500
    /\ \A i \in DOMAIN results :
          /\ results[i].probability \in 0 .. 99
          /\ results[i].confidence \in 50 .. 95

\* the lowest confidence there is: an advisory on a day more than 72 hours
\* ahead, with a very large score
C2_Witness ==
    /\ Len(results) = 1
    /\ severity.base_score = 10000 * Pt
    /\ severity.alert_type = "Winter Weather Advisory"
    /\ forecast_age > 72
    /\ results[1].confidence = 60

\* C3: under the same alert label, no alert included, a higher severity
\* score never gives a lower probability
C3_Monotone ==
    pc \in {"decay", "append"} =>
        \A s2 \in Scores :
            severity.base_score < s2 =>
                probability <= severity_to_probability(s2, severity.alert_type).probability

\* a score in a middle bucket, with lower buckets below and higher above
C3_Witness ==
    /\ pc = "decay"
    /\ severity.alert_type = NoAlert
    /\ probability = 42
    /\ \E s2 \in Scores : severity_to_probability(s2, NoAlert).probability > probability
    /\ \E s2 \in Scores : severity_to_probability(s2, NoAlert).probability < probability

\* C4: with a qualifying alert the probability is at least the one the same
\* severity score gives with no alert
C4_AlertIsFloor ==
    (pc \in {"decay", "append"} /\ severity.alert_type \in AlertLabels) =>
        probability >= severity_to_probability(severity.base_score, NoAlert).probability

\* the day is one snow period in the peak commute window, with a QPF above
\* zero and a temperature given in Fahrenheit
SingleSnowDay ==
    /\ Len(day_hours) = 1
    /\ "snow" \in day_hours[1].forecast
    /\ day_hours[1].startTime[3] \in 5 .. 9
    /\ IsNum(day_hours[1].quantitativePrecipitation)
    /\ day_hours[1].quantitativePrecipitation[2] > 0
    /\ IsNum(day_hours[1].temperature)
    /\ day_hours[1].temperatureUnit = "F"

\* the bracket table, in tenths, each bracket holding its upper bound
RatioUpperInclusive(T) ==
    CASE T > 30 -> 80
      [] T > 25 /\ T <= 30 -> 95
      [] T > 20 /\ T <= 25 -> 100
      [] T > 15 /\ T <= 20 -> 120
      [] T <= 15 -> 150

\* the bracket table, in tenths, with 25 in the bracket it opens
RatioLowerInclusive(T) ==
    CASE T > 30 -> 80
      [] T >= 25 /\ T <= 30 -> 95
      [] T > 20 /\ T < 25 -> 100
      [] T > 15 /\ T <= 20 -> 120
      [] T <= 15 -> 150

\* q inches of liquid (q in tenths of a millimetre) times a ratio in tenths,
\* as a depth in 1/Inch of an inch
DepthOf(q, ratio) == (q * ratio * Inch) \div (MmPerInch10 * 10)

\* half an inch of liquid, in tenths of a millimetre
HalfInchQpf == MmPerInch10 \div 2

\* C5, amended: for a day of a single snow period in the peak window with
\* QPF q > 0 at T degrees F, the total snow is q times the ratio of the
\* bracket table with every bracket holding its upper bound, so that 25
\* selects 10.0; q = 0.5 at 25 gives 5.0 inches, and the accumulation and
\* early-morning scores are both above zero
C5_SnowDepth ==
    (pc = "probability" /\ SingleSnowDay) =>
        LET q == day_hours[1].quantitativePrecipitation[2]
            T == day_hours[1].temperature[2]
        IN  /\ severity.total_snow = DepthOf(q, RatioUpperInclusive(T))
            /\ (q = HalfInchQpf /\ T = 25) =>
                  /\ severity.total_snow = 5 * Inch
                  /\ severity.accumulation > 0
                  /\ severity.early_morning > 0

\* half an inch of liquid at exactly 25 degrees F, scored
C5_Witness ==
    /\ pc = "probability"
    /\ SingleSnowDay
    /\ day_hours[1].quantitativePrecipitation[2] = HalfInchQpf
    /\ day_hours[1].temperature[2] = 25
    /\ severity.total_snow = 5 * Inch
    /\ severity.accumulation > 0
    /\ severity.early_morning > 0

\* C5 as stated: exactly 25 degrees F selects the ratio 9.5, and q = 0.5 at
\* 25 gives 4.75 inches with both scores above zero
C5_AsStated ==
    (pc = "probability" /\ SingleSnowDay) =>
        LET q == day_hours[1].quantitativePrecipitation[2]
            T == day_hours[1].temperature[2]
        IN  /\ severity.total_snow = DepthOf(q, RatioLowerInclusive(T))
            /\ (q = HalfInchQpf /\ T = 25) =>
                  /\ severity.total_snow = (475 * Inch) \div 100
                  /\ severity.accumulation > 0
                  /\ severity.early_morning > 0

\* the words of a forecast text that name precipitation
PrecipWords == snow_keywords \cup {"freezing drizzle", "ice pellets", "ice storm"}

\* no period is a snow period or names precipitation, every QPF is zero or
\* missing, every temperature is 40 degrees F, and there are no alerts
CalmDay ==
    /\ IsEmpty(alerts)
    /\ \A i \in DOMAIN day_hours :
          /\ ~is_snow_period(day_hours[i])
          /\ day_hours[i].forecast \cap PrecipWords = {}
          /\ day_hours[i].quantitativePrecipitation \in {Absent, Null, Num(0)}
          /\ day_hours[i].temperature = Num(40)
          /\ day_hours[i].temperatureUnit = "F"

\* C6: a day with no snow, no precipitation, 40 degrees F throughout (at any
\* wind speed and visibility) and no alerts has base score 0 and is mapped
\* to the lowest band, probability 2
C6_CalmDayLowest ==
    (pc \in {"probability", "decay"} /\ CalmDay) =>
        /\ severity.base_score = 0
        /\ severity.alert_type = NoAlert
        /\ pc = "decay" => probability = 2

\* a calm day of one period at a bus hour with a 60 mph wind and a reduced
\* visibility, mapped
C6_Witness ==
    /\ pc = "decay"
    /\ CalmDay
    /\ day_hours[1].startTime[3] = 9
    /\ day_hours[1].windSpeed = Num(60)
    /\ day_hours[1].visibility # Absent
    /\ probability = 2

\* the hour count of a time stamp that parses
HourCount(stamp) == stamp[2] * 24 + stamp[3]

\* the alert has no interval, or its interval ends before 03:00 or begins
\* after 10:00 of the date of the day's first period
OutsideWindow(alert) ==
    IF alert.effective[1] # "at" \/ alert.expires[1] # "at" THEN TRUE
    ELSE \/ HourCount(alert.expires) < day_hours[1].startTime[2] * 24 + 3
         \/ HourCount(alert.effective) > day_hours[1].startTime[2] * 24 + 10

\* C7: an alert counts for a day only if its interval overlaps the day's
\* decision window, 03:00 to 10:00 on the date of the day's first period; a
\* day whose alerts all lie outside the window gets (None, 0)
C7_WindowOnly ==
    (pc \in {"probability", "decay"} /\ ~IsEmpty(alerts)) =>
        /\ (\A i \in DOMAIN alerts[1] : OutsideWindow(alerts[1][i])) =>
              /\ alert_found = [label |-> NoAlert, score |-> 0]
              /\ severity.alert_type = NoAlert
        /\ alert_found.label # NoAlert =>
              \E i \in DOMAIN alerts[1] :
                  /\ ~OutsideWindow(alerts[1][i])
                  /\ alert_found.label \in alerts[1][i].event

\* a Blizzard Warning that expires at 02:00 of the day, an hour before the
\* window opens, and the day scored without it
C7_Witness ==
    /\ pc = "probability"
    /\ alerts = Some(<< Alert({"Blizzard Warning"}, At(DayDate - 1, 23), At(DayDate, 2)) >>)
    /\ day_hours[1].startTime[2] = DayDate
    /\ alert_found = [label |-> NoAlert, score |-> 0]

\* C8: for a period with a temperature and a wind speed, the wind chill is
\* never None, and it is the air temperature when the temperature is above
\* 50 degrees F or the wind speed is at most 3 mph, 0 mph included
C8_WindChillDefined ==
    pc = "probability" =>
        \A i \in DOMAIN day_hours :
            (IsNum(day_hours[i].temperature) /\ IsNum(day_hours[i].windSpeed)) =>
                LET temp == get_temperature_fahrenheit(day_hours[i])[1]
                    chill == extract_wind_chill(day_hours[i])
                IN  /\ chill # None
                    /\ (temp > 500 \/ day_hours[i].windSpeed[2] <= 3) =>
                          chill = Some(temp * (Deg \div 10))

\* a request of the fetch is not answered with data
FetchFails ==
    \/ server.zip # "ok"
    \/ server.metadata # "ok"
    \/ server.hourly # "ok"
    \/ server.alerts = "exception"

\* the fetch succeeds with a dataset that is absent or empty
DatasetEmpty == ~FetchFails /\ (server.periods = None \/ server.periods = Some(<<>>))

\* C9: with an empty or absent dataset, or a failed fetch, the handler does
\* not raise and scores no day, and it returns success = False, an error
\* message and an empty probabilities list
C9_NoDataResult ==
    (FetchFails \/ DatasetEmpty) =>
        /\ pc \in {"start", "fetch_failed", "fetched", "done"}
        /\ results = <<>>
        /\ counted_days = 0
        /\ pc = "done" =>
              /\ ret # None
              /\ ~ret[1].success
              /\ ret[1].error # None
              /\ ret[1].probabilities = <<>>

\* every request is answered and exactly one period of the dataset has a
\* start time that does not parse
OneBadPeriod ==
    /\ ~FetchFails
    /\ server.periods # None
    /\ Cardinality({ i \in DOMAIN server.periods[1] :
                       ~iso_ok(server.periods[1][i].startTime) }) = 1

\* C10: one period with an unparseable start time is skipped: the handler
\* does not raise, and it returns the earliest qualifying days of the
\* remaining periods
C10_BadPeriodSkipped ==
    OneBadPeriod =>
        /\ pc # "raised"
        /\ pc = "done" =>
              /\ ret # None
              /\ ret[1].success
              /\ { ret[1].probabilities[i].date : i \in DOMAIN ret[1].probabilities }
                    = EarliestFour

\* the field is missing: its key is absent, or present with a null value
Missing(field) == field \in {Absent, Null}

\* a period of the day lacks its temperature, its wind speed or its QPF
SomeFieldMissing ==
    \E i \in DOMAIN day_hours :
        \/ Missing(day_hours[i].temperature)
        \/ Missing(day_hours[i].windSpeed)
        \/ Missing(day_hours[i].quantitativePrecipitation)

\* C11: a day with a missing temperature, wind speed or QPF (absent or null)
\* is scored without error, with 32 degrees F in place of a missing
\* temperature or bus-hour wind chill and no precipitation in place of a
\* missing QPF
C11_MissingDefaults ==
    SomeFieldMissing =>
        /\ pc # "raised"
        /\ (pc = "probability" /\ Len(day_hours) = 1) =>
              LET period == day_hours[1]
              IN  /\ Missing(period.quantitativePrecipitation) =>
                        severity.total_snow = 0
                  /\ ( /\ Missing(period.temperature)
                       /\ "snow" \in period.forecast
                       /\ ~Missing(period.quantitativePrecipitation) ) =>
                        severity.total_snow =
                            DepthOf(period.quantitativePrecipitation[2],
                                    RatioUpperInclusive(32))
                  /\ (Missing(period.temperature) \/ Missing(period.windSpeed)) =>
                        severity.min_bus_chill = 32

\* the snow-related subtotal and the cold-related subtotal of a breakdown
SnowScore == severity.early_morning + severity.accumulation
ColdScore == severity.windchill_danger + severity.extreme_cold

\* the plain sum of the eight factor scores of a breakdown
PlainSum ==
    severity.early_morning + severity.accumulation + severity.refreeze_risk
    + severity.hazardous_precip + severity.road_conditions
    + severity.drifting_risk + severity.windchill_danger + severity.extreme_cold

\* C12: when the snow-related score and the cold-related score are both
\* positive the base score is strictly above the plain sum of the factor
\* scores, and when either is zero it equals the plain sum
C12_Compounding ==
    pc = "probability" =>
        /\ (SnowScore > 0 /\ ColdScore > 0) => severity.base_score > PlainSum
        /\ (SnowScore = 0 \/ ColdScore = 0) => severity.base_score = PlainSum

\* C13: the confidence is unchanged up to 48 hours of forecast age, is
\* multiplied by 0.90 from 48 to 72 hours, and by 0.90 and again by 0.80
\* beyond 72 hours, and is then raised to the floor 0.5
C13_StackedDecay ==
    pc = "append" =>
        LET mapped == severity_to_probability(severity.base_score,
                                              severity.alert_type).confidence
        IN  confidence =
                Max({5000,
                     IF forecast_age > 72 THEN (mapped * 90 * 80) \div 10000
                     ELSE IF forecast_age > 48 THEN (mapped * 90) \div 100
                     ELSE mapped})

\* the priority table of the alert categories, in points
Priority(label) ==
    CASE label = "Blizzard Warning" -> 50
      [] label = "Ice Storm Warning" -> 48
      [] label = "Winter Storm Warning" -> 40
      [] label = "Winter Weather Advisory" -> 20

\* the known categories named by the alerts that overlap the window
OverlappingLabels ==
    IF IsEmpty(alerts) THEN {}
    ELSE UNION { alerts[1][i].event \cap AlertLabels :
                   i \in { j \in DOMAIN alerts[1] : ~OutsideWindow(alerts[1][j]) } }

\* C14: the day's alert is the highest category, by the priority table,
\* among the alerts that overlap the window, in whatever order the list
\* holds them; unknown events are ignored and with no match it is (None, 0)
C14_HighestCategory ==
    pc \in {"probability", "decay"} =>
        IF OverlappingLabels = {}
        THEN alert_found = [label |-> NoAlert, score |-> 0]
        ELSE /\ alert_found.label \in OverlappingLabels
             /\ \A l \in OverlappingLabels : Priority(l) <= Priority(alert_found.label)
             /\ alert_found.score = Priority(alert_found.label) * Pt

\* a Blizzard Warning listed before a Winter Weather Advisory, both over
\* the window, and the warning kept
C14_Witness ==
    /\ pc = "probability"
    /\ alerts # None
    /\ Len(alerts[1]) = 2
    /\ alerts[1][1].event = {"Blizzard Warning"}
    /\ alerts[1][2].event = {"Winter Weather Advisory"}
    /\ ~OutsideWindow(alerts[1][1])
    /\ ~OutsideWindow(alerts[1][2])
    /\ alert_found = [label |-> "Blizzard Warning", score |-> 50 * Pt]

Labels == << "VERY UNLIKELY", "UNLIKELY", "POSSIBLE", "LIKELY", "VERY LIKELY" >>

\* the place of a label in that order
Rank(label) == CHOOSE k \in DOMAIN Labels : Labels[k] = label

\* the bucket of a probability by the boundaries 15, 35, 55, 75
Bucket(p) ==
    IF p < 15 THEN 1 ELSE IF p < 35 THEN 2 ELSE IF p < 55 THEN 3
    ELSE IF p < 75 THEN 4 ELSE 5

\* C16: every probability from 0 to 99 gets exactly one of the five labels,
\* the one of its bucket by the boundaries 15, 35, 55 and 75, and a higher
\* probability never gets a lower label
C16_LabelBuckets ==
    \A i \in DOMAIN results :
        /\ results[i].probability \in 0 .. 99
        /\ Cardinality({ k \in DOMAIN Labels : Labels[k] = results[i].likelihood }) = 1
        /\ Rank(results[i].likelihood) = Bucket(results[i].probability)
        /\ \A p2 \in 0 .. 99 :
              results[i].probability <= p2 =>
                  Rank(results[i].likelihood) <= Rank(likelihood_label(p2))

\* a result at the boundary 75, the lowest VERY LIKELY
C16_Witness ==
    /\ Len(results) = 1
    /\ results[1].probability = 75
    /\ results[1].likelihood = "VERY LIKELY"

\* a snow period with QPF above zero inside the peak window, hours 5..9
PeakSnow(period) ==
    /\ is_snow_period(period)
    /\ IsNum(period.quantitativePrecipitation)
    /\ period.quantitativePrecipitation[2] > 0
    /\ period.startTime[3] \in 5 .. 9

\* two such periods follow each other, an hour apart
HasRunOfTwo ==
    \E i \in 1 .. Len(day_hours) - 1 :
        /\ PeakSnow(day_hours[i])
        /\ PeakSnow(day_hours[i + 1])
        /\ day_hours[i + 1].startTime[3] = day_hours[i].startTime[3] + 1

\* the points of the day's periods before the bonus and the timing weight
TimingPoints == sum([i \in DOMAIN day_hours |-> timing_points(day_hours[i])])

\* C17: the early-morning score holds the continuous-snow bonus of 15
\* points, before the timing weight, whenever two or more snow periods with
\* QPF above zero follow each other in the peak window, and never when the
\* longest run is shorter than two
C17_BonusFromTwo ==
    pc = "probability" =>
        LET weight == ProfileOf(district_profile).timing_weight
        IN  /\ HasRunOfTwo => severity.early_morning = (TimingPoints + 15) * weight
            /\ severity.continuous_hours < 2 =>
                  severity.early_morning = TimingPoints * weight

\* the early-morning score of the day's single period moved to another hour
ScoreAtHour(hour) ==
    analyze_early_morning_timing(
        << [day_hours[1] EXCEPT !.startTime = At(day_hours[1].startTime[2], hour)] >>,
        ProfileOf(district_profile)).score

\* C18: a snow period with a depth above zero at an hour of the peak window,
\* 5..9, adds at least as many points as the same period at an hour of the
\* pre-dawn window, 3..4
C18_PeakAtLeastPreDawn ==
    ( /\ pc = "probability"
      /\ Len(day_hours) = 1
      /\ PeakSnow(day_hours[1])
      /\ severity.total_snow > 0 ) =>
        \A hour \in 3 .. 4 : severity.early_morning >= ScoreAtHour(hour)

\* the unit codes that name Celsius
CelsiusCodes == {"C", "wmoUnit:degC"}

\* the period reporting the same temperature in Fahrenheit, C x 9/5 + 32
InFahrenheit(period) ==
    IF period.temperatureUnit \in CelsiusCodes
    THEN [period EXCEPT !.temperature = Num((period.temperature[2] * 9) \div 5 + 32),
                        !.temperatureUnit = "F"]
    ELSE period

\* a period of the day is in Celsius, and every temperature is a number
\* whose Fahrenheit equivalent is whole
CelsiusDay ==
    /\ \E i \in DOMAIN day_hours : day_hours[i].temperatureUnit \in CelsiusCodes
    /\ \A i \in DOMAIN day_hours :
          /\ IsNum(day_hours[i].temperature)
          /\ day_hours[i].temperatureUnit \in CelsiusCodes =>
                (day_hours[i].temperature[2] * 9) % 5 = 0

\* C19: a day with Celsius periods gets the snow depth and the early-morning,
\* accumulation, refreeze and road-condition scores of the same day with
\* those temperatures reported in Fahrenheit
C19_CelsiusConverted ==
    (pc = "probability" /\ CelsiusDay) =>
        LET same == calculate_severity_score(
                        [i \in DOMAIN day_hours |-> InFahrenheit(day_hours[i])],
                        alerts, ProfileOf(district_profile))
        IN  /\ severity.total_snow = same.total_snow
            /\ severity.early_morning = same.early_morning
            /\ severity.accumulation = same.accumulation
            /\ severity.refreeze_risk = same.refreeze_risk
            /\ severity.road_conditions = same.road_conditions

\* a snow period with QPF above zero
SnowWithQpf(period) ==
    /\ is_snow_period(period)
    /\ IsNum(period.quantitativePrecipitation)
    /\ period.quantitativePrecipitation[2] > 0

\* the places of such periods in the day
SnowPlaces == { i \in DOMAIN day_hours : SnowWithQpf(day_hours[i]) }

\* the hour of the last of them
LastSnowHour == day_hours[Max(SnowPlaces)].startTime[3]

\* a period without snow, with wind above 25 mph, from 0 to 6 hours after
\* the last snow hour
WindAfterSnow(period) ==
    /\ ~is_snow_period(period)
    /\ IsNum(period.windSpeed)
    /\ period.windSpeed[2] > 25
    /\ period.startTime[3] - LastSnowHour \in 0 .. 6

\* C20: the drifting score is 0 on a day without a snow period with QPF
\* above zero and never above 20; on a day with such snow, a windy period
\* without snow within six hours after the last snow hour adds to it,
\* whatever the last snow hour, midnight included
C20_DriftingRisk ==
    pc = "probability" =>
        /\ severity.drifting_risk <= 20 * Pt
        /\ SnowPlaces = {} => severity.drifting_risk = 0
        /\ ( /\ SnowPlaces # {}
             /\ \E i \in DOMAIN day_hours : WindAfterSnow(day_hours[i]) ) =>
                severity.drifting_risk > 0

\* the day has at least one snow or ice period
HasSnowOrIce == \E i \in DOMAIN day_hours : is_snow_period(day_hours[i])

\* the sum of the six factor scores that do not come from the wind chill
SumWithoutChill ==
    severity.early_morning + severity.accumulation + severity.refreeze_risk
    + severity.hazardous_precip + severity.road_conditions
    + severity.drifting_risk

\* C21: on a day with a snow or ice period the minimum bus-hour wind chill
\* adds nothing to the base score, and on a day without one the wind chill
\* is counted by one cold score, never by two added together
C21_OneColdPolicy ==
    pc = "probability" =>
        /\ HasSnowOrIce => severity.base_score = SumWithoutChill
        /\ ~HasSnowOrIce =>
              ~(severity.windchill_danger > 0 /\ severity.extreme_cold > 0)

\* the accumulation threshold of the calculator's profile
Threshold == ProfileOf(district_profile).accumulation_threshold

\* the day's total is below the threshold by at most a hundredth of an inch
JustBelowThreshold ==
    /\ severity.total_snow < Threshold
    /\ Threshold - severity.total_snow <= Inch \div 100

\* totals from 0 to 7 inches by quarters of an inch
QuarterInches == { (k * Inch) \div 4 : k \in 0 .. 28 }

\* C22: for every built-in profile the accumulation score of a total equal
\* to the profile's accumulation_threshold is strictly above the score of a
\* total just below it, and the score never decreases as the total grows
C22_ThresholdIsBreakpoint ==
    pc = "probability" =>
        /\ severity.total_snow = Threshold =>
              severity.accumulation
                > Pt * accumulation_steps(Threshold - 1, Threshold)
        /\ JustBelowThreshold =>
              severity.accumulation
                < Pt * accumulation_steps(Threshold, Threshold)
        /\ \A s \in QuarterInches \cup {Threshold - 1, Threshold} :
              /\ s <= severity.total_snow =>
                    Pt * accumulation_steps(s, Threshold) <= severity.accumulation
              /\ s >= severity.total_snow =>
                    Pt * accumulation_steps(s, Threshold) >= severity.accumulation

\* the periods of the fetched forecast that start on a date, in the order
\* of the forecast
OwnPeriods(date) ==
    LET starts_on(period) == period.startTime[2] = date
    IN  SelectSeq(hourly_forecast[1], starts_on)

\* the entry the scoring of a date's own periods gives, with the alert list
\* and the clock
OwnEntry(date) ==
    LET sev == calculate_severity_score(OwnPeriods(date), alerts,
                                        ProfileOf(district_profile))
        mapped == severity_to_probability(sev.base_score, sev.alert_type)
        age == get_forecast_age(OwnPeriods(date), now)
    IN  [date |-> date,
         weekday |-> weekday(date),
         probability |-> mapped.probability,
         likelihood |-> likelihood_label(mapped.probability),
         confidence |-> round_confidence(decay_confidence(mapped.confidence, age)),
         score_breakdown |-> sev]

\* the grouping loop has run
Grouped == pc \in {"loop", "severity", "probability", "decay", "append", "return"}

\* C23: every entry of the results is what the date's own periods, the
\* alert list and the clock give, whatever periods the forecast holds for
\* other dates; and the buckets are the forecast's dates, each holding the
\* periods that start on its date, every one of them once, in the order of
\* the forecast
C23_OwnPeriodsOnly ==
    /\ \A i \in DOMAIN results : results[i] = OwnEntry(results[i].date)
    /\ Grouped =>
          /\ DOMAIN periods_by_date = ForecastDates
          /\ \A d \in ForecastDates : periods_by_date[d] = OwnPeriods(d)
          /\ LET dates == sorted(DOMAIN periods_by_date)
             IN  sum([i \in DOMAIN dates |-> Len(periods_by_date[dates[i]])])
                    = Len(hourly_forecast[1])
          /\ \A i \in DOMAIN hourly_forecast[1] :
                Cardinality({ d \in DOMAIN periods_by_date :
                    \E k \in DOMAIN periods_by_date[d] :
                        periods_by_date[d][k] = hourly_forecast[1][i] }) = 1

\* two dates returned from a forecast whose periods are not in order of
\* date and in which a date's periods are not next to each other
C23_Witness ==
    /\ pc = "done"
    /\ ret # None
    /\ Len(ret[1].probabilities) = 2
    /\ ret[1].probabilities[1].score_breakdown # ret[1].probabilities[2].score_breakdown
    /\ \E i, j, k \in DOMAIN hourly_forecast[1] :
          /\ i < j /\ j < k
          /\ hourly_forecast[1][i].startTime[2] = hourly_forecast[1][k].startTime[2]
          /\ hourly_forecast[1][j].startTime[2] < hourly_forecast[1][i].startTime[2]

====
